---- MODULE Spec2Model ----
(***************************************************************************)
(* img-fu: least-significant-bit steganography over RGBA8 images.          *)
(* A model of src/src/main.rs: pixel addressing, the byte <-> channel-LSB  *)
(* packer, the frame header, encode_data / decode_data and the capacity    *)
(* check of the encode command.                                            *)
(***************************************************************************)
EXTENDS Integers, Sequences, FiniteSets, TLC

VARIABLES
  image_file,       \* the pixel buffer image::open(..).to_rgba8() yields
  img,              \* the in-memory Image the operations borrow
  img_before,       \* history: img when the last operation started
  output_file,      \* what img.save(output_path) wrote, NoFile before
  pixel_cursor,     \* the shared u32 cursor after the last operation
  call,             \* the last operation and its inputs
  ret,              \* what the last operation returned, or how it died
  encoded,          \* history: what the latest encode_data / write_header wrote
  overflow_checks,  \* build profile: TRUE = debug (arithmetic overflow panics)
  test              \* which caller of the codec is running

vars == <<image_file, img, img_before, output_file, pixel_cursor, call, ret,
          encoded, overflow_checks, test>>

(***************************************************************************)
(* Bounds of the model                                                     *)
(***************************************************************************)
NumSeeds == 3          \* initial pixel contents: all 0, all 255, mixed...
MaxNameChars == 1      \* characters of a file name
MaxDataLen == 1        \* bytes of a small data file
MaxEncodes == 2        \* encode_data calls on one image

U8 == 2 ^ 8             \* u8 arithmetic is modulo this
Limb == 2 ^ 16          \* a u32 is kept as two 16-bit limbs <<hi, lo>>

Byte == 0 .. 255

(***************************************************************************)
(* u32 values that may exceed TLC's 32-bit integers (header lengths, the   *)
(* image capacity) are pairs <<hi, lo>> standing for hi * 2^16 + lo.       *)
(* The pixel cursor is a plain integer: it never passes width*(height+1).  *)
(***************************************************************************)
\* n as u32, for 0 <= n < 2^31
U32Of(n) == <<(n \div Limb) % Limb, n % Limb>>

\* a - b in u32, wrapping (what a release build computes)
U32WrappingSub(a, b) ==
  LET borrow == IF a[2] < b[2] THEN 1 ELSE 0
  IN  <<(a[1] - b[1] - borrow + Limb) % Limb, (a[2] - b[2] + Limb) % Limb>>

U32Less(a, b) == a[1] < b[1] \/ (a[1] = b[1] /\ a[2] < b[2])

\* F(v), with v evaluated once
Bind(v, F(_)) == CHOOSE r \in {F(x) : x \in {v}} : TRUE

(***************************************************************************)
(* Images: type Image = ImageBuffer<Rgba<u8>, Vec<u8>>, a row-major buffer *)
(* of width*height pixels, each a tuple of four u8 channels.               *)
(***************************************************************************)
InitialChannel(seed, i, k) ==
  IF seed = 0 THEN 0
  ELSE IF seed = 1 THEN 255
  ELSE (i * 37 + k * 11 + seed * 101) % U8

NewImage(w, h, seed) ==
  [width |-> w, height |-> h,
   pixels |-> [i \in 0 .. w * h - 1 |->
                 <<InitialChannel(seed, i, 0), InitialChannel(seed, i, 1),
                   InitialChannel(seed, i, 2), InitialChannel(seed, i, 3)>>]]

NumPixels(image) == image.width * image.height

\* img[(x, y)] and img.put_pixel(x, y, p): the image crate checks x < width and
\* y < height and panics otherwise; pixel (x, y) is entry y*width + x.
InBounds(image, x, y) == x < image.width /\ y < image.height

PixelAt(image, x, y) == image.pixels[y * image.width + x]

PutPixel(image, x, y, p) ==
  [image EXCEPT !.pixels[y * image.width + x] = p]

\* Mutant: the coordinates the wrong way round (column-major addressing).
get_pixel_position_swapped(image, pixel_index) ==
  LET y == pixel_index % image.width
      x == pixel_index \div image.width
  IN  IF x > image.width \/ y > image.height
      THEN [panic |-> TRUE, x |-> x, y |-> y]
      ELSE [panic |-> FALSE, x |-> x, y |-> y]

(***************************************************************************)
(* fn get_pixel_position(img, pixel_index) -> (u32, u32)                   *)
(***************************************************************************)
get_pixel_position(image, pixel_index) ==
  LET y == pixel_index \div image.width
      x == pixel_index % image.width
  IN  IF x > image.width \/ y > image.height
      THEN [panic |-> TRUE, x |-> x, y |-> y]
      ELSE [panic |-> FALSE, x |-> x, y |-> y]

\* Mutant: clearing written as `byte & 1` instead of `byte & !1`.
byte_with_x_last_bit_and_1(byte, x) ==
  IF x = 1 THEN (byte \div 2) * 2 + 1
  ELSE byte % 2

\* Mutant: a 0 bit leaves the channel as it is (the LSB is never cleared).
byte_with_x_last_bit_never_clears(byte, x) ==
  IF x = 1 THEN (byte \div 2) * 2 + 1
  ELSE byte

(***************************************************************************)
(* Channel bit operations                                                  *)
(***************************************************************************)
byte_with_x_last_bit(byte, x) ==
  IF x = 1 THEN (byte \div 2) * 2 + 1      \* byte | 1
  ELSE (byte \div 2) * 2                   \* byte & !1

get_last_bit_of_byte(byte) == byte % 2     \* byte & 1

\* (byte >> bit_index) & 1
BitOf(byte, bit_index) == (byte \div (2 ^ bit_index)) % 2

(***************************************************************************)
(* A codec run: the image, the cursor and whether the run is still alive.  *)
(* status is "ok", "panic_position" (get_pixel_position's own panic) or    *)
(* "panic_index" (the image buffer's index check).                         *)
(***************************************************************************)
Run(image, cursor) == [img |-> image, cursor |-> cursor, status |-> "ok"]

\* Mutant: the cursor advanced once per byte, not once per pixel.
WritePixel_cursor_per_byte(run, byte, i) ==
  IF run.status # "ok" THEN run
  ELSE
    LET position == get_pixel_position(run.img, run.cursor)
    IN  IF position.panic
        THEN [run EXCEPT !.status = "panic_position"]
        ELSE IF ~InBounds(run.img, position.x, position.y)
        THEN [run EXCEPT !.status = "panic_index"]
        ELSE
          LET existing_pixel == PixelAt(run.img, position.x, position.y)
              new_pixel ==
                <<byte_with_x_last_bit(existing_pixel[1], BitOf(byte, i)),
                  byte_with_x_last_bit(existing_pixel[2], BitOf(byte, i + 1)),
                  byte_with_x_last_bit(existing_pixel[3], BitOf(byte, i + 2)),
                  byte_with_x_last_bit(existing_pixel[4], BitOf(byte, i + 3))>>
          IN  [run EXCEPT
                 !.cursor = IF i = 4 THEN run.cursor + 1 ELSE run.cursor,
                 !.img = PutPixel(run.img, position.x, position.y, new_pixel)]

\* One iteration of write_byte_to_image's loop: bits i .. i+3 into one pixel.
WritePixel(run, byte, i) ==
  IF run.status # "ok" THEN run
  ELSE
    LET position == get_pixel_position(run.img, run.cursor)
    IN  IF position.panic
        THEN [run EXCEPT !.status = "panic_position"]
        ELSE IF ~InBounds(run.img, position.x, position.y)
        THEN [run EXCEPT !.status = "panic_index"]
        ELSE
          LET existing_pixel == PixelAt(run.img, position.x, position.y)
              new_pixel ==
                <<byte_with_x_last_bit(existing_pixel[1], BitOf(byte, i)),
                  byte_with_x_last_bit(existing_pixel[2], BitOf(byte, i + 1)),
                  byte_with_x_last_bit(existing_pixel[3], BitOf(byte, i + 2)),
                  byte_with_x_last_bit(existing_pixel[4], BitOf(byte, i + 3))>>
          IN  [run EXCEPT
                 !.cursor = run.cursor + 1,
                 !.img = PutPixel(run.img, position.x, position.y, new_pixel)]

\* fn write_byte_to_image(img, pixel_cursor, byte): for i in (0..8).step_by(4)
write_byte_to_image(run, byte) ==
  Bind(WritePixel(run, byte, 0), LAMBDA first : WritePixel(first, byte, 4))

\* a | b on unsigned integers
RECURSIVE BitOr(_, _)
BitOr(a, b) ==
  IF a = 0 THEN b
  ELSE IF b = 0 THEN a
  ELSE (IF a % 2 = 1 \/ b % 2 = 1 THEN 1 ELSE 0) + 2 * BitOr(a \div 2, b \div 2)

\* (x << n) in u8
Shl8(x, n) == (x * (2 ^ n)) % U8

\* (x << n) in u32, for n in 0 .. 31
RECURSIVE U32Shl(_, _)
U32Shl(x, n) ==
  IF n >= 16 THEN U32Shl(<<x[2], 0>>, n - 16)
  ELSE <<(x[1] * (2 ^ n) + (x[2] * (2 ^ n)) \div Limb) % Limb, (x[2] * (2 ^ n)) % Limb>>

\* a | b in u32
U32Or(a, b) == <<BitOr(a[1], b[1]), BitOr(a[2], b[2])>>

\* fn write_byte_vector_to_image(img, pixel_cursor, bytes): for byte in bytes.
\* WriteBytesRange writes bytes[lo .. hi] in order, first the lower half of the
\* range and then the upper half on the run the lower half left (the loop
\* unrolled as a balanced tree, so that long vectors evaluate at a shallow
\* depth).  A panic unwinds out of the loop: nothing is written after it.
RECURSIVE WriteBytesRange(_, _, _, _)
WriteBytesRange(run, bytes, lo, hi) ==
  IF lo > hi \/ run.status # "ok" THEN run
  ELSE IF lo = hi THEN write_byte_to_image(run, bytes[lo])
  ELSE LET mid == (lo + hi) \div 2
       IN  Bind(WriteBytesRange(run, bytes, lo, mid),
                LAMBDA lower : WriteBytesRange(lower, bytes, mid + 1, hi))

write_byte_vector_to_image(run, bytes) == WriteBytesRange(run, bytes, 1, Len(bytes))

\* One iteration of read_byte_from_image's loop: one pixel into bits i .. i+3.
\* rd is [run, byte]: the run so far and the byte being assembled.
ReadPixel(rd, i) ==
  IF rd.run.status # "ok" THEN rd
  ELSE
    LET position == get_pixel_position(rd.run.img, rd.run.cursor)
    IN  IF position.panic
        THEN [rd EXCEPT !.run.status = "panic_position"]
        ELSE IF ~InBounds(rd.run.img, position.x, position.y)
        THEN [rd EXCEPT !.run.status = "panic_index"]
        ELSE
          LET existing_pixel == PixelAt(rd.run.img, position.x, position.y)
              b0 == BitOr(rd.byte, Shl8(get_last_bit_of_byte(existing_pixel[1]), i))
              b1 == BitOr(b0, Shl8(get_last_bit_of_byte(existing_pixel[2]), i + 1))
              b2 == BitOr(b1, Shl8(get_last_bit_of_byte(existing_pixel[3]), i + 2))
              b3 == BitOr(b2, Shl8(get_last_bit_of_byte(existing_pixel[4]), i + 3))
          IN  [run |-> [rd.run EXCEPT !.cursor = rd.run.cursor + 1],
               byte |-> b3]

\* fn read_byte_from_image(img, pixel_cursor) -> u8
read_byte_from_image(run) ==
  Bind(ReadPixel([run |-> run, byte |-> 0], 0), LAMBDA first : ReadPixel(first, 4))

\* fn read_bytes_from_image(img, pixel_cursor, length) -> Vec<u8>:
\* for _i in 0..length { bytes.push(read_byte_from_image(..)) }
\* rds is [run, bytes]; a panic unwinds out of the loop.
\* length is a u32 <<hi, lo>>; _i counts up from 0.
RECURSIVE ReadBytesLoop(_, _, _)
ReadBytesLoop(rds, i, length) ==
  IF ~U32Less(U32Of(i), length) \/ rds.run.status # "ok" THEN rds
  ELSE
    Bind(read_byte_from_image(rds.run),
         LAMBDA rd :
           IF rd.run.status # "ok"
           THEN [run |-> rd.run, bytes |-> rds.bytes]
           ELSE Bind([run |-> rd.run, bytes |-> Append(rds.bytes, rd.byte)],
                     LAMBDA next : ReadBytesLoop(next, i + 1, length)))

read_bytes_from_image(run, length) ==
  ReadBytesLoop([run |-> run, bytes |-> <<>>], 0, length)

(***************************************************************************)
(* u32 <-> four big-endian bytes                                           *)
(***************************************************************************)
\* Mutant: x.to_le_bytes()
convert_u32_to_bytes_le(x) ==
  <<x[2] % U8, x[2] \div U8, x[1] % U8, x[1] \div U8>>

\* x.to_be_bytes().to_vec()
convert_u32_to_bytes(x) ==
  <<x[1] \div U8, x[1] % U8, x[2] \div U8, x[2] % U8>>

\* (b0 << 24) | (b1 << 16) | (b2 << 8) | b3, in u32
convert_byte_vector_to_u32(bytes) ==
  U32Or(U32Or(U32Or(U32Shl(U32Of(bytes[1]), 24), U32Shl(U32Of(bytes[2]), 16)),
              U32Shl(U32Of(bytes[3]), 8)),
        U32Of(bytes[4]))

SaltLen == 16    \* vec![0; 16]: the reserved salt
Reserve == 1000  \* "Remove 1000 for the header"
ThresholdPermille == 999   \* percent_used > 99.9

\* vec![0; n]
Zeros(n) == [k \in 1 .. n |-> 0]

(***************************************************************************)
(* Frame header: flags, name length, data length, salt                     *)
(***************************************************************************)
\* Mutant: the two lengths written in the order of the parameters (data, name).
write_header_lengths_swapped(run, data_len, name_len) ==
  LET r1 == write_byte_to_image(run, 0)
      r2 == write_byte_vector_to_image(r1, convert_u32_to_bytes(data_len))
      r3 == write_byte_vector_to_image(r2, convert_u32_to_bytes(name_len))
  IN  write_byte_vector_to_image(r3, Zeros(SaltLen))

\* fn write_header(img, data, name, pixel_cursor); only the lengths of data
\* and name are used, each cast with `as u32`: data_len and name_len are u32s.
write_header(run, data_len, name_len) ==
  LET r1 == write_byte_to_image(run, 0)
      r2 == write_byte_vector_to_image(r1, convert_u32_to_bytes(name_len))
      r3 == write_byte_vector_to_image(r2, convert_u32_to_bytes(data_len))
  IN  write_byte_vector_to_image(r3, Zeros(SaltLen))

\* Mutant: the header read as the 22 bytes the comment above struct Header
\* documents (13 salt bytes), so that the name is read from byte 22.
read_header_22_bytes(run) ==
  Bind(read_byte_from_image(run), LAMBDA flags :
  Bind(read_bytes_from_image(flags.run, U32Of(4)), LAMBDA name_length_vec :
  Bind(read_bytes_from_image(name_length_vec.run, U32Of(4)), LAMBDA data_length_vec :
  Bind(read_bytes_from_image(data_length_vec.run, U32Of(13)), LAMBDA salt :
    IF salt.run.status # "ok"
    THEN [run |-> salt.run, name_length |-> U32Of(0), data_length |-> U32Of(0)]
    ELSE [run |-> salt.run,
          name_length |-> convert_byte_vector_to_u32(name_length_vec.bytes),
          data_length |-> convert_byte_vector_to_u32(data_length_vec.bytes)]))))

\* fn read_header(img, pixel_cursor) -> Header
read_header(run) ==
  Bind(read_byte_from_image(run), LAMBDA flags :
  Bind(read_bytes_from_image(flags.run, U32Of(4)), LAMBDA name_length_vec :
  Bind(read_bytes_from_image(name_length_vec.run, U32Of(4)), LAMBDA data_length_vec :
  Bind(read_bytes_from_image(data_length_vec.run, U32Of(SaltLen)), LAMBDA salt :
    IF salt.run.status # "ok"
    THEN [run |-> salt.run, name_length |-> U32Of(0), data_length |-> U32Of(0)]
    ELSE [run |-> salt.run,
          name_length |-> convert_byte_vector_to_u32(name_length_vec.bytes),
          data_length |-> convert_byte_vector_to_u32(data_length_vec.bytes)]))))

(***************************************************************************)
(* String::from_utf8(bytes).unwrap(): the standard library's validation    *)
(***************************************************************************)
IsCont(bytes, k) == k <= Len(bytes) /\ bytes[k] \in 128 .. 191

RECURSIVE Utf8From(_, _)
Utf8From(bytes, k) ==
  IF k > Len(bytes) THEN TRUE
  ELSE
    LET b == bytes[k]
        second == IF k + 1 <= Len(bytes) THEN bytes[k + 1] ELSE 0
    IN  IF b <= 127 THEN Utf8From(bytes, k + 1)
        ELSE IF b \in 194 .. 223
        THEN IsCont(bytes, k + 1) /\ Utf8From(bytes, k + 2)
        ELSE IF b \in 224 .. 239
        THEN /\ IsCont(bytes, k + 1) /\ IsCont(bytes, k + 2)
             /\ (b = 224 => second >= 160)
             /\ (b = 237 => second <= 159)
             /\ Utf8From(bytes, k + 3)
        ELSE IF b \in 240 .. 244
        THEN /\ IsCont(bytes, k + 1) /\ IsCont(bytes, k + 2) /\ IsCont(bytes, k + 3)
             /\ (b = 240 => second >= 144)
             /\ (b = 244 => second <= 143)
             /\ Utf8From(bytes, k + 4)
        ELSE FALSE

IsValidUtf8(bytes) == Utf8From(bytes, 1)

(***************************************************************************)
(* fn encode_data(img, data, name): header, then name, then data, from     *)
(* cursor 0.  Returns the run: the image, the final cursor, the status.    *)
(***************************************************************************)
encode_data(image, data, name) ==
  LET r1 == write_header(Run(image, 0), U32Of(Len(data)), U32Of(Len(name)))
      r2 == write_byte_vector_to_image(r1, name)
  IN  write_byte_vector_to_image(r2, data)

(***************************************************************************)
(* fn decode_data(img) -> FileData.  The name is validated only once both  *)
(* fields are read.  status "panic_utf8" is from_utf8(..).unwrap().        *)
(***************************************************************************)
decode_data(image) ==
  Bind(read_header(Run(image, 0)), LAMBDA header :
  Bind(read_bytes_from_image(header.run, header.name_length), LAMBDA file_name_bytes :
  Bind(read_bytes_from_image(file_name_bytes.run, header.data_length), LAMBDA data_bytes :
    LET run == data_bytes.run
    IN  IF run.status # "ok"
        THEN [status |-> run.status, cursor |-> run.cursor, name |-> <<>>, data |-> <<>>]
        ELSE IF ~IsValidUtf8(file_name_bytes.bytes)
        THEN [status |-> "panic_utf8", cursor |-> run.cursor, name |-> <<>>, data |-> <<>>]
        ELSE [status |-> "ok", cursor |-> run.cursor,
              name |-> file_name_bytes.bytes, data |-> data_bytes.bytes])))

(***************************************************************************)
(* fn get_image_capacity(img) -> u32: height * width - 1000.  With fewer   *)
(* than 1000 pixels the subtraction overflows: a debug build panics, a     *)
(* release build wraps.                                                    *)
(***************************************************************************)
get_image_capacity(image, checked) ==
  LET pixels == U32Of(image.height * image.width)
  IN  IF U32Less(pixels, U32Of(Reserve)) /\ checked
      THEN [panic |-> TRUE, value |-> U32Of(0)]
      ELSE [panic |-> FALSE, value |-> U32WrappingSub(pixels, U32Of(Reserve))]

\* Mutant: the refusal threshold at 100 percent (percent_used > 100.0).
PercentUsedOver100(len, capacity) ==
  /\ len > 0
  /\ U32Less(capacity, U32Of(len))

\* percent_used > 99.9, where percent_used = (len as f64) / (capacity as f64) * 100.0.
\* For len > 0 that is 1000 * len > 999 * capacity, i.e.
\* capacity <= (1000 * len - 1) div 999 (which also covers capacity = 0: inf);
\* for len = 0 the quotient is 0 or NaN and the comparison is false.
PercentUsedOverThreshold(len, capacity) ==
  /\ len > 0
  /\ ~U32Less(U32Of((1000 * len - 1) \div ThresholdPermille), capacity)

\* fn encode(image_path, data_path, output_path), on the loaded image.
\* data_path is the path split at "/"; its last component is the name.
\* Returns the in-memory image at the end, whether it was saved, and how the
\* command ended: "ok", "refused" ("Image is too small to fit the data"),
\* "panic_overflow" (get_image_capacity, debug build) or a codec panic.
encode(image, data_path, data, checked) ==
  LET capacity == get_image_capacity(image, checked)
      file_name_without_initial_slashes == data_path[Len(data_path)]
  IN  IF capacity.panic
      THEN [status |-> "panic_overflow", img |-> image, cursor |-> 0,
            saved |-> FALSE, encode_data_called |-> FALSE]
      ELSE IF PercentUsedOverThreshold(Len(data), capacity.value)
      THEN [status |-> "refused", img |-> image, cursor |-> 0,
            saved |-> FALSE, encode_data_called |-> FALSE]
      ELSE Bind(encode_data(image, data, file_name_without_initial_slashes),
                LAMBDA run :
                  [status |-> run.status, img |-> run.img, cursor |-> run.cursor,
                   saved |-> run.status = "ok", encode_data_called |-> TRUE])

(***************************************************************************)
(* Inputs                                                                  *)
(***************************************************************************)
\* File names are UTF-8 strings: "a" and "e-acute" (two bytes).
NameChars == {<<97>>, <<195, 169>>}

RECURSIVE NamesUpTo(_)
NamesUpTo(n) ==
  IF n = 0 THEN {<<>>}
  ELSE NamesUpTo(n - 1) \cup {s \o c : s \in NamesUpTo(n - 1), c \in NameChars}

Names == NamesUpTo(MaxNameChars)

DataBytes == {165}

RECURSIVE DatasUpTo(_)
DatasUpTo(n) ==
  IF n = 0 THEN {<<>>}
  ELSE DatasUpTo(n - 1) \cup {s \o <<b>> : s \in DatasUpTo(n - 1), b \in DataBytes}

Datas == DatasUpTo(MaxDataLen)

\* Image sizes (width, height) of each harness.
ByteDims == {<<3, 2>>, <<2, 3>>}
CodecDims == {<<8, 8>>, <<9, 6>>}
HeaderDims == {<<10, 5>>, <<7, 8>>, <<7, 7>>}
CliDims == {<<8, 7>>, <<40, 25>>, <<77, 13>>, <<50, 40>>}

\* Header lengths: values over the whole u32 range, as <<hi, lo>>.
Lengths32 ==
  {U32Of(0), U32Of(1), U32Of(255), U32Of(256), U32Of(8123), U32Of(65536),
   <<258, 772>>, <<32768, 0>>, <<57005, 48879>>, <<65535, 65535>>}

\* Data files of the encode command: small ones and ones near the capacity
\* of a 2000-pixel image.
CliDataLens == (0 .. MaxDataLen) \cup {990, 1000}
CliData(len) == [k \in 1 .. len |-> (k * 7) % U8]
CliDatas == {CliData(len) : len \in CliDataLens}
CliPaths == {<<n>> : n \in Names \ {<<>>}} \cup {<<<<100>>, n>> : n \in Names \ {<<>>}}

(***************************************************************************)
(* State                                                                   *)
(***************************************************************************)
NoImage == [width |-> 0, height |-> 0, pixels |-> <<>>]
NoFile == [saved |-> FALSE, image |-> NoImage]

Call(op) ==
  [op |-> op, cursor |-> 0, byte |-> 0, index |-> 0, path |-> <<>>,
   name |-> <<>>, data |-> <<>>, name_len |-> U32Of(0), data_len |-> U32Of(0),
   value |-> U32Of(0)]

Ret(status) ==
  [status |-> status, byte |-> 0, x |-> 0, y |-> 0, name |-> <<>>, data |-> <<>>,
   name_length |-> U32Of(0), data_length |-> U32Of(0), bytes |-> <<>>,
   value |-> U32Of(0), encode_data_called |-> FALSE]

NoPayload ==
  [count |-> 0, name |-> <<>>, data |-> <<>>, name_len |-> U32Of(0),
   data_len |-> U32Of(0), status |-> "ok"]

\* image::open(..).to_rgba8() on a file of the given size and contents
Load(caller, dims, checked) ==
  \E d \in dims, seed \in 0 .. NumSeeds - 1 :
    /\ test = caller
    /\ image_file = NewImage(d[1], d[2], seed)
    /\ img = image_file
    /\ img_before = image_file
    /\ output_file = NoFile
    /\ pixel_cursor = 0
    /\ call = Call("load")
    /\ ret = Ret("ok")
    /\ encoded = NoPayload
    /\ overflow_checks \in checked

Alive == ret.status \in {"ok", "refused"}

(***************************************************************************)
(* Byte harness (test_write_and_read_single_pixel, test_get_pixel_position)*)
(***************************************************************************)
Cursors == 0 .. image_file.width * (image_file.height + 1) + 1

\* on the freshly loaded image: a fresh cursor c, write_byte_to_image
WriteByte(c, b) ==
  /\ call.op = "load"
  /\ \E run \in {write_byte_to_image(Run(image_file, c), b)} :
         /\ img_before' = image_file
         /\ img' = run.img
         /\ pixel_cursor' = run.cursor
         /\ call' = [Call("write_byte_to_image") EXCEPT !.cursor = c, !.byte = b]
         /\ ret' = Ret(run.status)
  /\ UNCHANGED <<image_file, output_file, encoded, overflow_checks, test>>

\* a fresh cursor c, read_byte_from_image: of the loaded image at any cursor,
\* or reading back where the last write started
ReadByte(c) ==
  /\ Alive
  /\ \/ call.op = "load"
     \/ call.op = "write_byte_to_image" /\ c = call.cursor
  /\ \E rd \in {read_byte_from_image(Run(img, c))} :
         /\ img_before' = img
         /\ img' = rd.run.img
         /\ pixel_cursor' = rd.run.cursor
         /\ call' = [Call("read_byte_from_image") EXCEPT !.cursor = c]
         /\ ret' = [Ret(rd.run.status) EXCEPT !.byte = rd.byte]
  /\ UNCHANGED <<image_file, output_file, encoded, overflow_checks, test>>

GetPixelPosition(i) ==
  /\ call.op \in {"load", "get_pixel_position"}
  /\ Alive
  /\ \E position \in {get_pixel_position(img, i)} :
         /\ call' = [Call("get_pixel_position") EXCEPT !.index = i]
         /\ ret' = [Ret(IF position.panic THEN "panic_position" ELSE "ok")
                      EXCEPT !.x = position.x, !.y = position.y]
  /\ UNCHANGED <<image_file, img, img_before, output_file, pixel_cursor, encoded,
                 overflow_checks, test>>

InitByte == Load("byte", ByteDims, {FALSE})

NextByte ==
  \/ test = "byte" /\ call.op = "load" /\ \E c \in Cursors, b \in Byte : WriteByte(c, b)
  \/ test = "byte" /\ \E c \in Cursors : ReadByte(c)
  \/ test = "byte" /\ \E i \in Cursors : GetPixelPosition(i)

SpecByte == InitByte /\ [][NextByte]_vars

(***************************************************************************)
(* Codec harness (test_e2e_encode_decode): encode_data and decode_data on  *)
(* one in-memory image, any number of times.  A panic ends the process.    *)
(***************************************************************************)
EncodeData(name, data) ==
  /\ \E run \in {encode_data(img, data, name)} :
         /\ img_before' = img
         /\ img' = run.img
         /\ pixel_cursor' = run.cursor
         /\ call' = [Call("encode_data") EXCEPT !.name = name, !.data = data]
         /\ ret' = [Ret(run.status) EXCEPT !.encode_data_called = TRUE]
         /\ encoded' = [count |-> encoded.count + 1, name |-> name, data |-> data,
                        name_len |-> U32Of(Len(name)), data_len |-> U32Of(Len(data)),
                        status |-> run.status]
  /\ UNCHANGED <<image_file, output_file, overflow_checks, test>>

DecodeData ==
  /\ \E file_data \in {decode_data(img)} :
         /\ img_before' = img
         /\ img' = img
         /\ pixel_cursor' = file_data.cursor
         /\ call' = Call("decode_data")
         /\ ret' = [Ret(file_data.status) EXCEPT
                      !.name = file_data.name, !.data = file_data.data]
  /\ UNCHANGED <<image_file, output_file, encoded, overflow_checks, test>>

InitCodec == Load("codec", CodecDims, {FALSE})

NextCodec ==
  \/ test = "codec" /\ Alive /\ encoded.count < MaxEncodes
       /\ \E name \in Names, data \in Datas : EncodeData(name, data)
  \/ test = "codec" /\ Alive /\ DecodeData

SpecCodec == InitCodec /\ [][NextCodec]_vars

(***************************************************************************)
(* Header harness (test_convert_u32_to_bytes, write_header / read_header)  *)
(***************************************************************************)
\* on the freshly loaded image: write_header at cursor 0 for a name of
\* name_len bytes and data of data_len bytes
WriteHeader(name_len, data_len) ==
  /\ \E run \in {write_header(Run(image_file, 0), data_len, name_len)} :
         /\ img_before' = image_file
         /\ img' = run.img
         /\ pixel_cursor' = run.cursor
         /\ call' = [Call("write_header") EXCEPT
                       !.name_len = name_len, !.data_len = data_len]
         /\ ret' = Ret(run.status)
         /\ encoded' = [count |-> encoded.count + 1, name |-> <<>>, data |-> <<>>,
                        name_len |-> name_len, data_len |-> data_len,
                        status |-> run.status]
  /\ UNCHANGED <<image_file, output_file, overflow_checks, test>>

ReadHeader ==
  /\ \E header \in {read_header(Run(img, 0))} :
         /\ img_before' = img
         /\ img' = img
         /\ pixel_cursor' = header.run.cursor
         /\ call' = Call("read_header")
         /\ ret' = [Ret(header.run.status) EXCEPT
                      !.name_length = header.name_length,
                      !.data_length = header.data_length]
  /\ UNCHANGED <<image_file, output_file, encoded, overflow_checks, test>>

\* let bytes = convert_u32_to_bytes(x); convert_byte_vector_to_u32(&bytes)
ConvertU32(x) ==
  /\ \E bytes \in {convert_u32_to_bytes(x)} :
         /\ call' = [Call("convert_u32") EXCEPT !.value = x]
         /\ ret' = [Ret("ok") EXCEPT
                      !.bytes = bytes, !.value = convert_byte_vector_to_u32(bytes)]
  /\ UNCHANGED <<image_file, img, img_before, output_file, pixel_cursor, encoded,
                 overflow_checks, test>>

InitHeader == Load("header", HeaderDims, {FALSE})

NextHeader ==
  \/ test = "header" /\ call.op = "load" /\ \E n \in Lengths32, d \in Lengths32 : WriteHeader(n, d)
  \/ test = "header" /\ call.op \in {"load", "write_header"} /\ Alive /\ ReadHeader
  \/ test = "header" /\ call.op \in {"load", "convert_u32"} /\ \E x \in Lengths32 : ConvertU32(x)

SpecHeader == InitHeader /\ [][NextHeader]_vars

(***************************************************************************)
(* The encode command: load the image, read the data file, encode, save.   *)
(***************************************************************************)
Encode(data_path, data) ==
  /\ \E r \in {encode(image_file, data_path, data, overflow_checks)} :
         /\ img_before' = image_file
         /\ img' = r.img
         /\ pixel_cursor' = r.cursor
         /\ call' = [Call("encode") EXCEPT
                       !.path = data_path, !.name = data_path[Len(data_path)],
                       !.data = data]
         /\ ret' = [Ret(r.status) EXCEPT !.encode_data_called = r.encode_data_called]
         /\ output_file' = IF r.saved THEN [saved |-> TRUE, image |-> r.img]
                           ELSE output_file
  /\ UNCHANGED <<image_file, encoded, overflow_checks, test>>

InitCli == Load("encode", CliDims, BOOLEAN)

NextCli ==
  test = "encode" /\ call.op = "load" /\ \E data_path \in CliPaths, data \in CliDatas :
                        Encode(data_path, data)

SpecCli == InitCli /\ [][NextCli]_vars

(***************************************************************************)
(* The byte harness and the codec harness together: every way this program *)
(* writes into an image short of the command's capacity check.             *)
(***************************************************************************)
InitFrame == InitByte \/ InitCodec

NextFrame == NextByte \/ NextCodec

SpecFrame == InitFrame /\ [][NextFrame]_vars

(***************************************************************************)
(* Properties                                                              *)
(***************************************************************************)
Fits(image, name, data) == 2 * (25 + Len(name) + Len(data)) <= NumPixels(image)

HighBits(pixel) ==
  <<pixel[1] \div 2, pixel[2] \div 2, pixel[3] \div 2, pixel[4] \div 2>>

ByteOps == {"write_byte_to_image", "read_byte_from_image"}

\* C4: for every byte value and every start cursor c with c + 1 < width*height,
\* one write_byte_to_image and one read_byte_from_image leave the cursor at
\* exactly c + 2; the cursor moves by one per pixel consumed and never back.
C4_CursorAdvancesByTwo ==
  call.op \in ByteOps =>
    /\ call.cursor + 1 < NumPixels(img) =>
         ret.status = "ok" /\ pixel_cursor = call.cursor + 2
    /\ pixel_cursor = call.cursor +
         Cardinality({call.cursor, call.cursor + 1} \cap (0 .. NumPixels(img) - 1))

C4_Witness ==
  /\ call.op = "read_byte_from_image" /\ call.cursor = NumPixels(img) - 2
  /\ ret.status = "ok" /\ ret.byte = 255 /\ pixel_cursor = NumPixels(img)
  /\ img # image_file

\* C6: encoding changes nothing but least-significant bits of touched pixels.
\* After write_byte_to_image at cursor c bits 1..7 of every channel of every
\* pixel are as before and every pixel other than c and c + 1 is untouched;
\* after encode_data with name length N and data length M every pixel from
\* index 2*(25+N+M) on is untouched and the others differ at most in bit 0.
C6_OnlyLsbsChange ==
  /\ call.op = "write_byte_to_image" =>
       /\ img.width = img_before.width /\ img.height = img_before.height
       /\ \A i \in 0 .. NumPixels(img) - 1 :
            /\ HighBits(img.pixels[i]) = HighBits(img_before.pixels[i])
            /\ i \notin {call.cursor, call.cursor + 1} =>
                 img.pixels[i] = img_before.pixels[i]
  /\ call.op = "encode_data" =>
       /\ img.width = img_before.width /\ img.height = img_before.height
       /\ \A i \in 0 .. NumPixels(img) - 1 :
            /\ HighBits(img.pixels[i]) = HighBits(img_before.pixels[i])
            /\ i >= 2 * (25 + Len(call.name) + Len(call.data)) =>
                 img.pixels[i] = img_before.pixels[i]

C6_Witness ==
  /\ call.op = "encode_data" /\ ret.status = "ok"
  /\ Len(call.name) = 2 /\ Len(call.data) = 1
  /\ img.pixels[55] # img_before.pixels[55]
  /\ img.pixels[55][1] > 1

\* C7: get_pixel_position fails with a bounds error for every pixel index
\* i >= width*height and never returns (x, y) with x >= width or y >= height.
C7_BoundsErrorPastTheEnd ==
  call.op = "get_pixel_position" =>
    /\ call.index >= NumPixels(img) => ret.status = "panic_position"
    /\ ret.status = "ok" => ret.x < img.width /\ ret.y < img.height

\* C8: for every pixel index 0 <= i < width*height get_pixel_position returns
\* (i mod width, floor(i / width)); index 0 maps to (0,0), index width to
\* (0,1), and distinct indices below width*height map to distinct coordinates.
C8_RowMajor ==
  (call.op = "get_pixel_position" /\ call.index < NumPixels(img)) =>
    /\ ret.status = "ok"
    /\ ret.x = call.index % img.width
    /\ ret.y = call.index \div img.width
    /\ ret.y * img.width + ret.x = call.index
    /\ call.index = 0 => ret.x = 0 /\ ret.y = 0
    /\ call.index = img.width => ret.x = 0 /\ ret.y = 1
    /\ \A j \in 0 .. NumPixels(img) - 1 :
         j # call.index =>
           <<get_pixel_position(img, j).x, get_pixel_position(img, j).y>>
             # <<ret.x, ret.y>>

C8_Witness ==
  /\ call.op = "get_pixel_position" /\ call.index = img.width
  /\ img.width = 3 /\ ret.status = "ok" /\ ret.x = 0 /\ ret.y = 1
\* C1: for every image, name (valid UTF-8, N bytes) and data (M bytes) with
\* 2*(25+N+M) <= width*height, decode_data of the image encode_data produced
\* returns exactly that name and exactly those data bytes, whatever the image
\* held before.
C1_RoundTrip ==
  /\ (call.op = "encode_data" /\ Fits(img, call.name, call.data)) => ret.status = "ok"
  /\ (/\ call.op = "decode_data" /\ encoded.count > 0
      /\ Fits(img, encoded.name, encoded.data)) =>
       /\ ret.status = "ok"
       /\ ret.name = encoded.name
       /\ ret.data = encoded.data

C1_Witness ==
  /\ call.op = "decode_data" /\ encoded.count = 1 /\ ret.status = "ok"
  /\ ret.name = <<195, 169>> /\ ret.data = <<165>>
  /\ img_before.pixels[0] = <<254, 254, 254, 254>>

\* The frame encode_data is to embed: one flags byte, N and M as four
\* big-endian bytes each, sixteen salt bytes, the name, the data.
BigEndian4(n) ==
  <<(n \div 16777216) % 256, (n \div 65536) % 256, (n \div 256) % 256, n % 256>>

FrameOf(name, data) ==
  <<0>> \o BigEndian4(Len(name)) \o BigEndian4(Len(data))
        \o <<0, 0, 0, 0, 0, 0, 0, 0, 0, 0, 0, 0, 0, 0, 0, 0>> \o name \o data

C10_LastWriteWins ==
  /\ [](call.op = "decode_data" /\ encoded.count >= 1 =>
          /\ ret.status = "ok"
          /\ ret.name = encoded.name
          /\ ret.data = encoded.data)
  /\ [][(/\ call'.op = "encode_data" /\ ret'.status = "ok"
         /\ encoded.count >= 1 /\ encoded.status = "ok"
         /\ call'.name = encoded.name /\ call'.data = encoded.data)
        => img' = img]_vars

C10_Witness ==
  /\ call.op = "decode_data" /\ encoded.count = 2 /\ ret.status = "ok"
  /\ ret.name = <<>> /\ ret.data = <<>>
  /\ ret.name = encoded.name /\ ret.data = encoded.data
  /\ \E i \in 50 .. NumPixels(img) - 1 : img.pixels[i] # image_file.pixels[i]

\* C5: for every pair (nameLen, dataLen) of 32-bit values, read_header from
\* cursor 0 on an image on which write_header ran at cursor 0 returns
\* name_length = nameLen and data_length = dataLen; in particular
\* convert_byte_vector_to_u32(convert_u32_to_bytes(x)) = x.
C5_HeaderRoundTrip ==
  /\ (call.op = "read_header" /\ encoded.count > 0) =>
       /\ ret.status = "ok"
       /\ ret.name_length = encoded.name_len
       /\ ret.data_length = encoded.data_len
       /\ pixel_cursor = 50
  /\ call.op = "convert_u32" => ret.value = call.value

C5_Witness ==
  /\ call.op = "read_header" /\ encoded.count = 1 /\ ret.status = "ok"
  /\ ret.name_length = <<65535, 65535>> /\ ret.data_length = <<57005, 48879>>
  /\ image_file.pixels[0] = <<0, 0, 0, 0>>

\* C2: whenever the payload does not fit, 2*(25+N+M) > width*height, encode
\* reports a capacity error before any pixel is modified and ends with the
\* image untouched; it never starts writing and then aborts with a bounds
\* violation.  (The formula is the part about the image and the abort.)
C2_NoWriteWhenPayloadDoesNotFit ==
  (call.op = "encode" /\ ~Fits(img_before, call.name, call.data)) =>
    /\ ret.status \notin {"panic_index", "panic_position"}
    /\ ~ret.encode_data_called
    /\ img = img_before

\* C3: in encode, whenever data_length / capacity * 100 exceeds 99.9, with
\* capacity = width*height - 1000, the operation is refused: encode_data is
\* not invoked, no pixel changes and no output image is saved.
C3_RefusedOverThreshold ==
  (/\ call.op = "encode"
   /\ NumPixels(img_before) >= 1000
   /\ Len(call.data) > 0
   /\ 1000 * Len(call.data) > 999 * (NumPixels(img_before) - 1000)) =>
    /\ ret.status = "refused"
    /\ ~ret.encode_data_called
    /\ img = img_before
    /\ img = image_file
    /\ ~output_file.saved

C3_Witness ==
  /\ call.op = "encode" /\ ret.status = "refused"
  /\ NumPixels(img) = 2000 /\ Len(call.data) = 1000
  /\ ~output_file.saved

====
